---- MODULE Spec2Model ----
(***************************************************************************)
(* A model of jhaml.js: the recursive-descent compiler, the in-place       *)
(* optimizer, the tree-walking executor and the two template tables of one *)
(* Jhaml engine instance.                                                  *)
(*                                                                         *)
(* Representation.  A JavaScript string is a sequence of one-character     *)
(* strings.  Source text is the sequence of its lexemes: every lexeme is   *)
(* one character, except the keyword "def" and the comment delimiters      *)
(* "/*" and "*/"; white space is the lexemes " " and "\n".  Objects live   *)
(* in a heap (a sequence of objects, an object's identity being its        *)
(* index), so that writing through an alias is visible.                    *)
(***************************************************************************)
EXTENDS Integers, Sequences, FiniteSets, TLC

VARIABLES
    defaultParams, \* this.defaultParams: name -> value
    templates,   \* this.templates: name -> callable
    itos,        \* this._itos: name -> optimized tree
    lookupMode,  \* whether the host has overridden this.lookup
    last,        \* history: the last operation, its inputs and its outcome
    registered,  \* history: per name, the callable the host installed last,
                 \* and whether a def of that name was compiled since
    nops         \* the number of operations that changed the engine

vars == <<defaultParams, templates, itos, lookupMode, last, registered, nops>>

(***************************************************************************)
(* Bounds of the model.                                                    *)
(***************************************************************************)
MaxOps == 2
MaxBodyToks == 5
MaxStrLen == 3
MaxDepth == 3

(***************************************************************************)
(* Strings.                                                                *)
(***************************************************************************)
RECURSIVE Flatten(_)
Flatten(ss) == IF ss = <<>> THEN <<>> ELSE Head(ss) \o Flatten(Tail(ss))

Digits == <<"0", "1", "2", "3", "4", "5", "6", "7", "8", "9">>

RECURSIVE NumToString(_)
NumToString(n) ==
    IF n < 10 THEN <<Digits[n + 1]>>
    ELSE NumToString(n \div 10) \o <<Digits[(n % 10) + 1]>>

ObjectObjectText ==
    <<"[", "o", "b", "j", "e", "c", "t", " ", "O", "b", "j", "e", "c", "t", "]">>

(***************************************************************************)
(* JavaScript values: strings, numbers, booleans, references to heap       *)
(* objects, and undefined.                                                 *)
(***************************************************************************)
Undefined == [k |-> "undef"]
StrVal(s) == [k |-> "str", s |-> s]
NumVal(n) == [k |-> "num", n |-> n]
BoolVal(b) == [k |-> "bool", b |-> b]
RefVal(id) == [k |-> "ref", id |-> id]

\* String(v), as Array.prototype.join applies it to each element
\* (undefined joins as the empty string).
JsString(v) ==
    CASE v.k = "str" -> v.s
      [] v.k = "num" -> NumToString(v.n)
      [] v.k = "bool" -> IF v.b THEN <<"t", "r", "u", "e">>
                         ELSE <<"f", "a", "l", "s", "e">>
      [] v.k = "ref" -> ObjectObjectText
      [] OTHER -> <<>>

\* A heap object: own holds the properties plain indexing (obj[name]) sees,
\* attrs the data of a model object, which only an accessor reaches.
EmptyObject == [own |-> <<>>, attrs |-> <<>>]

\* obj[name] on a value: a property of a heap object, undefined otherwise
\* (the names of the model are no properties of a primitive).
GetProp(heap, v, name) ==
    IF v.k = "ref" /\ name \in DOMAIN heap[v.id].own
    THEN heap[v.id].own[name]
    ELSE Undefined

(***************************************************************************)
(* escape                                                                  *)
(***************************************************************************)
echars == [c \in {"<", ">", "&", "\""} |->
             CASE c = "<" -> <<"&", "l", "t", ";">>
               [] c = ">" -> <<"&", "g", "t", ";">>
               [] c = "&" -> <<"&", "a", "m", "p", ";">>
               [] c = "\"" -> <<"&", "q", "u", "o", "t", ";">>]

\* A faulty escape: the ampersand is left as it is.
escapeNoAmp(txt) ==
    Flatten([i \in 1..Len(txt) |->
                IF txt[i] \in {"<", ">", "\""} THEN echars[txt[i]] ELSE <<txt[i]>>])

\* txt.replace(/[<>&"]/g, m => echars[m])
escape(txt) ==
    Flatten([i \in 1..Len(txt) |->
                IF txt[i] \in DOMAIN echars THEN echars[txt[i]] ELSE <<txt[i]>>])

(***************************************************************************)
(* Opcodes                                                                 *)
(***************************************************************************)
LITERAL == 0
PARAMBODY == 1
PARAMREF == 2
HTMLREF == 3
TEXTREF == 4
EXTCALL == 5
INTCALL == 6
BODY == 7

(***************************************************************************)
(* optimize: the backward index walk over ops.body, splicing in place.     *)
(***************************************************************************)
SpliceOut(body, i, ins) ==
    SubSeq(body, 1, i - 1) \o ins \o SubSeq(body, i + 1, Len(body))

\* A faulty merge: = in place of +=, the left literal's text is lost.
MergeLiteralDropsLeft(body, i) ==
    SpliceOut([body EXCEPT ![i - 1].text = body[i].text], i, <<>>)

\* ops.body[i - 1].text += ops.body[i].text; ops.body.splice(i, 1)
MergeLiteral(body, i) ==
    SpliceOut([body EXCEPT ![i - 1].text = body[i - 1].text \o body[i].text], i, <<>>)

\* One run of the for loop from index i (1-based) down to the first child.
RECURSIVE optimizeLoop(_, _)
optimizeLoop(body, i) ==
    IF i < 1 THEN body
    ELSE IF body[i].opcode = BODY
         THEN LET b2 == body[i].body
              IN optimizeLoop(SpliceOut(body, i, b2), i + Len(b2) - 1)
    ELSE IF i > 1 /\ body[i].opcode = LITERAL /\ body[i - 1].opcode = LITERAL
         THEN optimizeLoop(MergeLiteral(body, i), i - 1)
    ELSE optimizeLoop(body, i - 1)

\* A PARAMBODY's body is a node, not an array: its length is undefined and
\* the loop does not run.
optimize(ops) ==
    IF ops.opcode = BODY
    THEN [ops EXCEPT !.body = optimizeLoop(ops.body, Len(ops.body))]
    ELSE ops

(***************************************************************************)
(* Errors.  A message is the sequence of the strings concatenated into it; *)
(* the executor appends the node's file, line and cPos.                    *)
(***************************************************************************)
NoErr == [k |-> "none", msg |-> <<>>, filename |-> "", line |-> 0, cPos |-> 0]

\* throw new Error(msg + ' at ' + op.filename + ':' + op.line + ':' + op.cPos)
ExecError(op, msg) ==
    [k |-> "Error", msg |-> msg, filename |-> op.filename, line |-> op.line,
     cPos |-> op.cPos]

\* val.replace is not a function: escape applied to a value that is no string.
TypeError == [k |-> "TypeError", msg |-> <<"txt.replace is not a function">>,
              filename |-> "", line |-> 0, cPos |-> 0]

\* The call stack is exhausted by unbounded template recursion.
RangeError == [k |-> "RangeError", msg |-> <<"Maximum call stack size exceeded">>,
               filename |-> "", line |-> 0, cPos |-> 0]

\* String(op[f]) inside a concatenation: "undefined" for an absent property.
FieldText(op, f) == IF f \in DOMAIN op THEN op[f] ELSE "undefined"

RECURSIVE JoinPath(_)
JoinPath(path) ==
    IF Len(path) <= 1 THEN path
    ELSE <<Head(path), ".">> \o JoinPath(Tail(path))

(***************************************************************************)
(* lookup and _resolveLookUp                                               *)
(***************************************************************************)
\* The default lookup: params[name].
lookup(heap, params, name) == GetProp(heap, params, name)

\* A host's override of lookup for model objects: the accessor reads the
\* model's data, and falls back to the plain property.
lookupOverride(heap, params, name) ==
    IF params.k = "ref" /\ name \in DOMAIN heap[params.id].attrs
    THEN heap[params.id].attrs[name]
    ELSE GetProp(heap, params, name)

\* _.each(path, p => { val = val[p]; if (val === undefined) error(...) }):
\* the walk from segment i on; the result is [val, err].
RECURSIVE resolveFrom(_, _, _, _, _, _)
resolveFrom(eng, heap, val, path, i, op) ==
    IF i > Len(path) THEN [val |-> val, err |-> NoErr]
    ELSE LET v == GetProp(heap, val, path[i])
         IN IF v = Undefined
            THEN [val |-> Undefined,
                  err |-> ExecError(op, <<"parameter ", path[i], " in ">>
                                        \o JoinPath(path) \o <<" is undefined">>)]
            ELSE resolveFrom(eng, heap, v, path, i + 1, op)

resolveLookUp(eng, heap, params, path, op) ==
    resolveFrom(eng, heap, params, path, 1, op)

(***************************************************************************)
(* execute.  The state threaded through one top-level call:                *)
(*   heap  the objects                                                     *)
(*   out   the texts pushed so far on the current htmla                    *)
(*   ret   the value the last completed execute returned                   *)
(*   err   the exception in flight, or NoErr                               *)
(*   log   one entry per callee entered: the call node, and the caller's   *)
(*         params and the callee's argument object at that moment          *)
(***************************************************************************)
NewExecState(heap) ==
    [heap |-> heap, out |-> <<>>, ret |-> Undefined, err |-> NoErr, log |-> <<>>]

\* htmla.push(v); join('') later applies String to every element.
Push(st, v) == [st EXCEPT !.out = @ \o JsString(v)]

\* args[name] = value
SetProp(heap, id, name, v) ==
    [heap EXCEPT ![id].own =
        [n \in DOMAIN @ \cup {name} |-> IF n = name THEN v ELSE @[n]]]

\* A faulty extend: var args = params, the caller's object itself.
ExtendNoCopy(st, params) == [st |-> st, id |-> params.id]

\* A faulty extend: var args = {}, nothing of the caller's params.
ExtendEmpty(st, params) ==
    [st |-> [st EXCEPT !.heap = Append(@, EmptyObject)], id |-> Len(st.heap) + 1]

\* var args = _.extend({}, params): a new object with params' properties.
Extend(st, params) ==
    LET src == IF params.k = "ref" THEN st.heap[params.id].own ELSE <<>>
    IN [st |-> [st EXCEPT !.heap = Append(@, [own |-> src, attrs |-> <<>>])],
        id |-> Len(st.heap) + 1]

\* A host callable: a total function from an argument object to a string.
HostCall(h, heap, argsId) == <<h>>

\* History: the call node op entering its callee, with the heap, the
\* caller's params and the callee's argument object at that moment.
CallEntry(op, callee, st, params, argsId) ==
    [op |-> op, callee |-> callee, heap |-> st.heap,
     paramsId |-> params.id, argsId |-> argsId,
     params |-> st.heap[params.id].own, args |-> st.heap[argsId].own]

RECURSIVE execute(_, _, _, _, _, _)
RECURSIVE executeEach(_, _, _, _, _, _)
RECURSIVE evalArgs(_, _, _, _, _, _, _)
RECURSIVE invoke(_, _, _, _, _)

\* _.each(op.body, tel => self.execute(tel, params, htmla))
executeEach(eng, body, i, params, st, fuel) ==
    IF i > Len(body) \/ st.err # NoErr THEN st
    ELSE executeEach(eng, body, i + 1, params,
                     execute(eng, body[i], params, st, TRUE, fuel), fuel)

\* _.each(op.args, (val, name) => { args[name] = self.execute(val, params) })
evalArgs(eng, args, i, params, argsId, st, fuel) ==
    IF i > Len(args) \/ st.err # NoErr THEN st
    ELSE LET r == execute(eng, args[i].val, params, st, FALSE, fuel)
         IN IF r.err # NoErr THEN r
            ELSE evalArgs(eng, args, i + 1, params, argsId,
                          [r EXCEPT !.heap = SetProp(r.heap, argsId, args[i].name, r.ret)],
                          fuel)

\* templates[tname](args): a host callable, or the closure
\* function(args) { return self.execute(obody, args) } of a def.
invoke(eng, f, argsVal, st, fuel) ==
    IF f.kind = "host"
    THEN [st EXCEPT !.ret = StrVal(HostCall(f.id, st.heap, argsVal.id))]
    ELSE IF fuel = 0 THEN [st EXCEPT !.err = RangeError]
    ELSE execute(eng, f.obody, argsVal, st, FALSE, fuel - 1)

execute(eng, op, params, st, hasSink, fuel) ==
    LET s0 == IF hasSink THEN st ELSE [st EXCEPT !.out = <<>>]
        \* leaving the frame: a private htmla is dropped, the caller's kept
        Leave(s) == IF hasSink THEN s ELSE [s EXCEPT !.out = st.out]
        \* break, then: if (htmla0 === undefined) return htmla.join('')
        Break(s) ==
            IF s.err # NoErr THEN Leave(s)
            ELSE IF hasSink THEN [s EXCEPT !.ret = Undefined]
            ELSE [s EXCEPT !.ret = StrVal(s.out), !.out = st.out]
    IN CASE op.opcode = LITERAL -> Break(Push(s0, StrVal(op.text)))
         [] op.opcode = PARAMBODY ->
              Leave(execute(eng, op.body, params, s0, FALSE, fuel))
         [] op.opcode = PARAMREF ->
              LET r == resolveLookUp(eng, s0.heap, params, op.path, op)
              IN Leave([s0 EXCEPT !.ret = r.val, !.err = r.err])
         [] op.opcode \in {HTMLREF, TEXTREF} ->
              LET r == resolveLookUp(eng, s0.heap, params, op.path, op)
              IN IF r.err # NoErr THEN Leave([s0 EXCEPT !.err = r.err])
                 ELSE IF op.opcode = TEXTREF
                      THEN IF r.val.k = "str"
                           THEN Break(Push(s0, StrVal(escape(r.val.s))))
                           ELSE Leave([s0 EXCEPT !.err = TypeError])
                 ELSE Break(Push(s0, r.val))
         [] op.opcode = EXTCALL ->
              LET a == Extend(s0, params)
                  s1 == evalArgs(eng, op.args, 1, params, a.id, a.st, fuel)
              IN IF s1.err # NoErr THEN Leave(s1)
                 ELSE IF op.tname \notin DOMAIN eng.templates
                      THEN Leave([s1 EXCEPT !.err =
                              ExecError(op, <<"external template ",
                                              FieldText(op, "fname"),
                                              " is undefined">>)])
                 ELSE LET s2 == [s1 EXCEPT !.log =
                                    Append(@, CallEntry(op, eng.templates[op.tname],
                                                        s1, params, a.id))]
                          s3 == invoke(eng, eng.templates[op.tname], RefVal(a.id),
                                       s2, fuel)
                      IN IF s3.err # NoErr THEN Leave(s3)
                         ELSE Break(Push(s3, s3.ret))
         [] op.opcode = INTCALL ->
              LET a == Extend(s0, params)
                  s1 == evalArgs(eng, op.args, 1, params, a.id, a.st, fuel)
              IN IF s1.err # NoErr THEN Leave(s1)
                 ELSE IF op.tname \notin DOMAIN eng.itos
                      THEN Leave([s1 EXCEPT !.err =
                              ExecError(op, <<"internal template ",
                                              FieldText(op, "fname"),
                                              " is undefined">>)])
                 ELSE IF fuel = 0 THEN Leave([s1 EXCEPT !.err = RangeError])
                 ELSE LET s2 == [s1 EXCEPT !.log =
                                    Append(@, CallEntry(op, eng.itos[op.tname],
                                                        s1, params, a.id))]
                      IN Break(execute(eng, eng.itos[op.tname], RefVal(a.id),
                                       s2, TRUE, fuel - 1))
         [] op.opcode = BODY ->
              Break(executeEach(eng, op.body, 1, params, s0, fuel))
         [] OTHER ->
              Leave([s0 EXCEPT !.err =
                        ExecError(op, <<"Unrecognized kind of thing in template">>)])

(***************************************************************************)
(* compile: the lexemes, and the helpers that stand for the regular        *)
(* expressions' pieces.                                                    *)
(***************************************************************************)
WhiteSpace == {" ", "\n"}
\* The letters "e" and "f" are no lexemes of their own: "d", "e", "f" in a
\* row would spell the keyword.
WordLexemes == {"a", "b", "c", "d", "g", "h", "i", "k", "n", "p", "q",
                "s", "t", "u", "v", "w", "x", "y", "z", "def"}

\* The characters of a lexeme.
Chars(tok) ==
    CASE tok = "def" -> <<"d", "e", "f">>
      [] tok = "ef" -> <<"e", "f">>
      [] tok = "/*" -> <<"/", "*">>
      [] tok = "*/" -> <<"*", "/">>
      [] OTHER -> <<tok>>

\* What is left of a lexeme once its first character is consumed.
RestLexeme(tok) ==
    CASE tok = "def" -> <<"ef">>
      [] tok = "/*" -> <<"*">>
      [] tok = "*/" -> <<"/">>
      [] OTHER -> <<>>

TextOf(toks) == Flatten([i \in 1..Len(toks) |-> Chars(toks[i])])

\* The lexeme at index i, "" past the end of the text.
At(txt, i) == IF i >= 1 /\ i <= Len(txt) THEN txt[i] ELSE ""

\* The index after the longest run, from index i, of lexemes in set S.
RECURSIVE RunEnd(_, _, _)
RunEnd(txt, i, S) == IF At(txt, i) \in S THEN RunEnd(txt, i + 1, S) ELSE i

\* \s*
SkipWs(txt, i) == RunEnd(txt, i, WhiteSpace)

\* \w+ , [a-z]\w* , [-\w]+ : a run of word lexemes
WordEnd(txt, i) == RunEnd(txt, i, WordLexemes)

\* The name spelled by lexemes i .. j-1.
RECURSIVE WordAt(_, _, _)
WordAt(txt, i, j) == IF i >= j THEN "" ELSE txt[i] \o WordAt(txt, i + 1, j)

\* The index of the first lexeme equal to tok at or after i, 0 when none.
RECURSIVE Find(_, _, _)
Find(txt, i, tok) ==
    IF i > Len(txt) THEN 0
    ELSE IF txt[i] = tok THEN i ELSE Find(txt, i + 1, tok)

\* The parser's position: txt is txt1, line is line.
\* ctx holds txt0.length, filename and self._itos.
eatChars(ps, n) ==
    [txt |-> SubSeq(ps.txt, n + 1, Len(ps.txt)),
     line |-> ps.line + Cardinality({i \in 1..n : ps.txt[i] = "\n"})]

eatWhitespace(ps) == eatChars(ps, SkipWs(ps.txt, 1) - 1)

emit(ctx, ps, op) ==
    [n \in DOMAIN op \cup {"filename", "line", "cPos"} |->
        CASE n = "filename" -> ctx.filename
          [] n = "line" -> ps.line
          [] n = "cPos" -> ctx.len - Len(ps.txt)
          [] OTHER -> op[n]]

\* error(msg0) of compile
SyntaxError(ctx, ps, msg0) ==
    [k |-> "SyntaxError", msg |-> <<"jhaml.js: ">> \o msg0, filename |-> ctx.filename,
     line |-> ps.line, cPos |-> ctx.len - Len(ps.txt)]

\* The outcome of a parser function: ok when it matched (op is what it
\* returned, isOp FALSE when that is the bare value true), err when it threw.
NoOp == [opcode |-> 0 - 1]
Matched(op, ps) == [ok |-> TRUE, isOp |-> TRUE, err |-> NoErr, op |-> op, ps |-> ps]
MatchedTrue(ps) == [ok |-> TRUE, isOp |-> FALSE, err |-> NoErr, op |-> NoOp, ps |-> ps]
NoMatch(ps) == [ok |-> FALSE, isOp |-> FALSE, err |-> NoErr, op |-> NoOp, ps |-> ps]
Thrown(e, ps) == [ok |-> FALSE, isOp |-> FALSE, err |-> e, op |-> NoOp, ps |-> ps]

\* a || b
OrElse(r1, r2) == IF r1.ok \/ r1.err # NoErr THEN r1 ELSE r2

\* args[name] = val on an object kept as its entries in insertion order.
SetEntry(entries, name, val) ==
    IF \E i \in 1..Len(entries) : entries[i].name = name
    THEN [i \in 1..Len(entries) |->
             IF entries[i].name = name THEN [name |-> name, val |-> val]
             ELSE entries[i]]
    ELSE Append(entries, [name |-> name, val |-> val])

(***************************************************************************)
(* The parser functions.  A parser function calls another one through P,   *)
(* the call by name defined below as parse: P(f, ctx, ps, x) is f applied  *)
(* at position ps, x being what f takes besides (the tag under             *)
(* construction, or what its loop has collected so far).                   *)
(***************************************************************************)
parseCommentRun(ps) ==
    LET n == RunEnd(ps.txt, 1, {ps.txt[i] : i \in 1..Len(ps.txt)} \ {"/*", "*/"}) - 1
    IN IF n > 0 THEN MatchedTrue(eatChars(ps, n)) ELSE NoMatch(ps)

parseCommentEnd(ps) ==
    IF At(ps.txt, 1) = "*/" THEN MatchedTrue(eatChars(ps, 1)) ELSE NoMatch(ps)

\* while (!parseCommentEnd()) { parseComment() || parseCommentRun() || error(...) }
commentLoop(P(_, _, _, _), ctx, ps) ==
    LET r == OrElse(P("parseComment", ctx, ps, <<>>), parseCommentRun(ps))
    IN IF parseCommentEnd(ps).ok THEN parseCommentEnd(ps)
       ELSE IF r.err # NoErr THEN r
       ELSE IF r.ok THEN P("commentLoop", ctx, r.ps, <<>>)
       ELSE Thrown(SyntaxError(ctx, ps, <<"Syntax error in comment?">>), ps)

parseComment(P(_, _, _, _), ctx, ps) ==
    LET i == SkipWs(ps.txt, 1)
    IN IF At(ps.txt, i) = "/*" THEN P("commentLoop", ctx, eatChars(ps, i), <<>>)
       ELSE NoMatch(ps)

\* while (parseComment()) eatWhitespace();
skipComments(P(_, _, _, _), ctx, ps) ==
    LET r == P("parseComment", ctx, ps, <<>>)
    IN IF r.err # NoErr THEN r
       ELSE IF r.ok THEN P("skipComments", ctx, eatWhitespace(r.ps), <<>>)
       ELSE MatchedTrue(ps)

\* [a-z]\w*(?:\s*\.\s*[a-z]\w*)* from index i, where a word starts: the path
\* read so far and the index after the match.
RECURSIVE PathFrom(_, _, _)
PathFrom(txt, i, path) ==
    LET j == WordEnd(txt, i)
        k == SkipWs(txt, j)
        m == SkipWs(txt, k + 1)
        p == Append(path, WordAt(txt, i, j))
    IN IF At(txt, k) = "." /\ WordEnd(txt, m) > m
       THEN PathFrom(txt, m, p)
       ELSE [path |-> p, end |-> j]

parseReference(ctx, ps) ==
    LET txt == ps.txt
        a == SkipWs(txt, 1)
        b == SkipWs(txt, a + 1)
        esc == At(txt, b) = "~"
        \* (~?) backtracks to empty when no path can follow the tilde
        c == IF esc THEN SkipWs(txt, b + 1) ELSE b
        paren == At(txt, c) = "("
        d == IF paren THEN SkipWs(txt, c + 1) ELSE c
        pp == PathFrom(txt, d, <<>>)
        close == SkipWs(txt, pp.end)
        n == IF paren THEN close ELSE pp.end - 1
        ps1 == eatChars(ps, n)
    IN IF At(txt, a) # "@" \/ WordEnd(txt, d) = d THEN NoMatch(ps)
       ELSE IF paren /\ At(txt, close) # ")" THEN NoMatch(ps)
       ELSE Matched(emit(ctx, ps1, [opcode |-> IF esc THEN TEXTREF ELSE HTMLREF,
                                    path |-> pp.path]), ps1)

parseCallEnd(ps) ==
    LET i == SkipWs(ps.txt, 1)
    IN IF At(ps.txt, i) = ")" THEN MatchedTrue(eatChars(ps, SkipWs(ps.txt, i + 1) - 1))
       ELSE NoMatch(ps)

\* Returns the name in op.
parseCallArgName(ps) ==
    LET i == SkipWs(ps.txt, 1)
        j == WordEnd(ps.txt, i)
        k == SkipWs(ps.txt, j)
    IN IF j > i /\ At(ps.txt, k) = ":"
       THEN Matched(WordAt(ps.txt, i, j), eatChars(ps, SkipWs(ps.txt, k + 1) - 1))
       ELSE NoMatch(ps)

parseCallArgSeparator(ps) ==
    LET i == SkipWs(ps.txt, 1)
    IN IF At(ps.txt, i) = "," THEN MatchedTrue(eatChars(ps, SkipWs(ps.txt, i + 1) - 1))
       ELSE NoMatch(ps)

parseQuote(ctx, ps) ==
    LET i == SkipWs(ps.txt, 1)
        j == Find(ps.txt, i + 1, "\"")
        ps1 == eatChars(ps, SkipWs(ps.txt, j + 1) - 1)
    IN IF At(ps.txt, i) = "\"" /\ j > 0
       THEN Matched(emit(ctx, ps1, [opcode |-> LITERAL,
                                    text |-> TextOf(SubSeq(ps.txt, i + 1, j - 1))]), ps1)
       ELSE NoMatch(ps)

parseIdentifier(ctx, ps) ==
    LET i == SkipWs(ps.txt, 1)
        j == WordEnd(ps.txt, i)
        ps1 == eatChars(ps, SkipWs(ps.txt, j) - 1)
    IN IF j > i
       THEN Matched(emit(ctx, ps1, [opcode |-> LITERAL,
                                    text |-> TextOf(SubSeq(ps.txt, i, j - 1))]), ps1)
       ELSE NoMatch(ps)

parseLiteralRun(ctx, ps) ==
    LET n == RunEnd(ps.txt, 1, {ps.txt[i] : i \in 1..Len(ps.txt)} \ {"\\", "~", "@"}) - 1
    IN IF n > 0
       THEN Matched(emit(ctx, ps, [opcode |-> LITERAL,
                                   text |-> TextOf(SubSeq(ps.txt, 1, n))]),
                    eatChars(ps, n))
       ELSE NoMatch(ps)

\* /^\\(.)/ : the dot matches no line break.  The escaped character is the
\* first one of the next lexeme; what is left of that lexeme stays in txt1.
parseLiteralEscape(ctx, ps) ==
    IF At(ps.txt, 1) = "\\" /\ At(ps.txt, 2) \notin {"", "\n"}
    THEN Matched(emit(ctx, ps, [opcode |-> LITERAL,
                                text |-> <<Head(Chars(ps.txt[2]))>>]),
                 [txt |-> RestLexeme(ps.txt[2]) \o SubSeq(ps.txt, 3, Len(ps.txt)),
                  line |-> ps.line])
    ELSE NoMatch(ps)

parseLiteralEnd(ps) ==
    IF At(ps.txt, 1) = "~" THEN MatchedTrue(eatChars(ps, SkipWs(ps.txt, 2) - 1))
    ELSE NoMatch(ps)

\* while (!parseLiteralEnd()) { a.push(parseLiteralRun() || parseLiteralEscape()
\*                                     || parseReference() || error(...)) }
literalLoop(P(_, _, _, _), ctx, ps, a) ==
    LET lop == OrElse(P("parseLiteralRun", ctx, ps, <<>>),
               OrElse(P("parseLiteralEscape", ctx, ps, <<>>),
                      P("parseReference", ctx, ps, <<>>)))
    IN IF parseLiteralEnd(ps).ok THEN Matched(a, parseLiteralEnd(ps).ps)
       ELSE IF lop.ok THEN P("literalLoop", ctx, lop.ps, Append(a, lop.op))
       ELSE Thrown(SyntaxError(ctx, ps, <<"Syntax error in literal">>), ps)

parseLiteral(P(_, _, _, _), ctx, ps) ==
    LET i == SkipWs(ps.txt, 1)
        r == P("literalLoop", ctx, eatChars(ps, i), <<>>)
    IN IF At(ps.txt, i) # "~" THEN NoMatch(ps)
       ELSE IF r.err # NoErr THEN r
       ELSE Matched(emit(ctx, ps, [opcode |-> BODY, body |-> r.op]), r.ps)

\* The tag under construction: id is NoOp while the tag has none.
NewTag == [id |-> NoOp, classNames |-> <<>>, attr |-> <<>>]

\* The result carries the tag in op.
parseTagId(P(_, _, _, _), ctx, ps, tag) ==
    LET i == SkipWs(ps.txt, 1)
        ps1 == eatChars(ps, SkipWs(ps.txt, i + 1) - 1)
        r == OrElse(P("parseIdentifier", ctx, ps1, <<>>),
                    P("parseReference", ctx, ps1, <<>>))
    IN IF tag.id # NoOp \/ At(ps.txt, i) # "#" THEN NoMatch(ps)
       ELSE IF r.ok THEN Matched([tag EXCEPT !.id = r.op], r.ps)
       ELSE Thrown(SyntaxError(ctx, ps1, <<"Expected ID">>), ps1)

parseTagClass(P(_, _, _, _), ctx, ps, tag) ==
    LET i == SkipWs(ps.txt, 1)
        ps1 == eatChars(ps, SkipWs(ps.txt, i + 1) - 1)
        r == OrElse(P("parseIdentifier", ctx, ps1, <<>>),
                    P("parseReference", ctx, ps1, <<>>))
    IN IF At(ps.txt, i) # "." THEN NoMatch(ps)
       ELSE IF r.ok THEN Matched([tag EXCEPT !.classNames = Append(@, r.op)], r.ps)
       ELSE Thrown(SyntaxError(ctx, ps1, <<"Expected Class Name">>), ps1)

parseTagAttr(P(_, _, _, _), ctx, ps, tag) ==
    LET i == SkipWs(ps.txt, 1)
        j == SkipWs(ps.txt, i + 1)
        k == WordEnd(ps.txt, j)
        m == SkipWs(ps.txt, k)
        ps1 == eatChars(ps, SkipWs(ps.txt, m + 1) - 1)
        r == OrElse(P("parseQuote", ctx, ps1, <<>>), P("parseReference", ctx, ps1, <<>>))
        c == SkipWs(r.ps.txt, 1)
    IN IF At(ps.txt, i) # "[" \/ k = j \/ At(ps.txt, m) # "=" THEN NoMatch(ps)
       ELSE IF ~r.ok THEN Thrown(SyntaxError(ctx, ps1, <<"Expected Attribute Value">>), ps1)
       ELSE IF At(r.ps.txt, c) = "]"
            THEN Matched([tag EXCEPT !.attr = SetEntry(@, WordAt(ps.txt, j, k), r.op)],
                         eatChars(r.ps, SkipWs(r.ps.txt, c + 1) - 1))
       ELSE Thrown(SyntaxError(ctx, r.ps, <<"Expected \"]\"">>), r.ps)

\* while (parseTagId(tag) || parseTagClass(tag) || parseTagAttr(tag)) ;
tagModifiers(P(_, _, _, _), ctx, ps, tag) ==
    LET r == OrElse(P("parseTagId", ctx, ps, tag),
             OrElse(P("parseTagClass", ctx, ps, tag), P("parseTagAttr", ctx, ps, tag)))
    IN IF r.err # NoErr THEN r
       ELSE IF r.ok THEN P("tagModifiers", ctx, r.ps, r.op)
       ELSE Matched(tag, ps)

Lit(ctx, ps, text) == emit(ctx, ps, [opcode |-> LITERAL, text |-> text])

\* The children a tag pushes for its id, its class names and its attributes.
IdOps(ctx, ps, id) ==
    IF id = NoOp THEN <<>>
    ELSE <<Lit(ctx, ps, <<" ", "i", "d", "=", "\"">>), id, Lit(ctx, ps, <<"\"">>)>>

ClassOps(ctx, ps, classNames) ==
    IF classNames = <<>> THEN <<>>
    ELSE <<Lit(ctx, ps, <<" ", "c", "l", "a", "s", "s", "=", "\"">>)>>
         \o Flatten([i \in 1..Len(classNames) |->
                       IF i > 1 THEN <<Lit(ctx, ps, <<" ">>), classNames[i]>>
                       ELSE <<classNames[i]>>])
         \o <<Lit(ctx, ps, <<"\"">>)>>

AttrOps(ctx, ps, attr) ==
    Flatten([i \in 1..Len(attr) |->
               <<Lit(ctx, ps, <<" ">> \o TextOf(<<attr[i].name>>) \o <<"=", "\"">>),
                 attr[i].val,
                 Lit(ctx, ps, <<"\"">>)>>])

\* The tag's children once its modifiers (mods) and its optional body are
\* parsed.
TagOps(ctx, tagName, mods, body) ==
    <<Lit(ctx, mods.ps, <<"<">> \o tagName)>>
    \o IdOps(ctx, mods.ps, mods.op.id)
    \o ClassOps(ctx, mods.ps, mods.op.classNames)
    \o AttrOps(ctx, mods.ps, mods.op.attr)
    \o (IF body.ok
        THEN <<Lit(ctx, body.ps, <<">">>), body.op,
               Lit(ctx, body.ps, <<"<", "/">> \o tagName \o <<">">>)>>
        ELSE <<Lit(ctx, body.ps, <<">", "<", "/">> \o tagName \o <<">">>)>>)

\* x is the result of the modifier loop once that has run.
parseTagRest(P(_, _, _, _), ctx, ps, mods) ==
    LET i == SkipWs(ps.txt, 1)
        j == WordEnd(ps.txt, i)
        body == P("parseBody", ctx, mods.ps, <<>>)
    IN IF body.err # NoErr THEN body
       ELSE Matched(emit(ctx, ps, [opcode |-> BODY,
                                   body |-> TagOps(ctx, TextOf(SubSeq(ps.txt, i, j - 1)),
                                                   mods, body)]),
                    body.ps)

parseTag(P(_, _, _, _), ctx, ps) ==
    LET i == SkipWs(ps.txt, 1)
        j == WordEnd(ps.txt, i)
        mods == P("tagModifiers", ctx, eatChars(ps, SkipWs(ps.txt, j) - 1), NewTag)
    IN IF j = i THEN NoMatch(ps)
       ELSE IF mods.err # NoErr THEN mods
       ELSE P("parseTagRest", ctx, ps, mods)

parseCallArgValue(P(_, _, _, _), ctx, ps) ==
    LET r == OrElse(P("parseReference", ctx, ps, <<>>),
             OrElse(P("parseQuote", ctx, ps, <<>>),
             OrElse(P("parseLiteral", ctx, ps, <<>>), P("parseBody", ctx, ps, <<>>))))
    IN IF r.err # NoErr THEN r
       ELSE IF ~r.ok THEN Thrown(SyntaxError(ctx, ps, <<"Expected call argument value">>), ps)
       \* op0.opcode === opcodes.PARAMREF is a comparison: op0 stays as parsed
       ELSE IF r.op.opcode = HTMLREF THEN r
       ELSE Matched(emit(ctx, r.ps, [opcode |-> PARAMBODY, body |-> r.op]), r.ps)

\* One round of do { ... } while (parseCallArgSeparator()), from the argument
\* name on; the result carries args in op.
argLoopRest(P(_, _, _, _), ctx, ps, args) ==
    LET nm == parseCallArgName(ps)
        val == P("parseCallArgValue", ctx, nm.ps, <<>>)
        c2 == P("skipComments", ctx, val.ps, <<>>)
        sep == parseCallArgSeparator(c2.ps)
    IN IF ~nm.ok THEN Thrown(SyntaxError(ctx, ps, <<"Expected argument name">>), ps)
       ELSE IF val.err # NoErr THEN val
       ELSE IF c2.err # NoErr THEN c2
       ELSE IF sep.ok THEN P("argLoop", ctx, sep.ps, SetEntry(args, nm.op, val.op))
       ELSE Matched(SetEntry(args, nm.op, val.op), c2.ps)

argLoop(P(_, _, _, _), ctx, ps, args) ==
    LET c1 == P("skipComments", ctx, ps, <<>>)
    IN IF c1.err # NoErr THEN c1 ELSE P("argLoopRest", ctx, c1.ps, args)

\* self._itos[tname] ? opcodes.INTCALL : opcodes.EXTCALL
CallKind(ctx, tname) == IF tname \in DOMAIN ctx.itos THEN INTCALL ELSE EXTCALL

\* The call once "name (" and the comments after it (c0) are read; op is the
\* node emitted at the call's start.
parseCallRest(P(_, _, _, _), ctx, c0, op) ==
    LET al == P("argLoop", ctx, c0.ps, <<>>)
    IN IF parseCallEnd(c0.ps).ok THEN Matched(op, parseCallEnd(c0.ps).ps)
       ELSE IF al.err # NoErr THEN al
       ELSE IF parseCallEnd(al.ps).ok
            THEN Matched([op EXCEPT !.args = al.op], parseCallEnd(al.ps).ps)
       ELSE Thrown(SyntaxError(ctx, al.ps, <<"Expected \")\"">>), al.ps)

parseCall(P(_, _, _, _), ctx, ps) ==
    LET i == SkipWs(ps.txt, 1)
        j == WordEnd(ps.txt, i)
        k == SkipWs(ps.txt, j)
        c0 == P("skipComments", ctx, eatChars(ps, k), <<>>)
    IN IF j = i \/ At(ps.txt, k) # "(" THEN NoMatch(ps)
       ELSE IF c0.err # NoErr THEN c0
       ELSE P("parseCallRest", ctx, c0,
              emit(ctx, ps, [opcode |-> CallKind(ctx, WordAt(ps.txt, i, j)),
                             tname |-> WordAt(ps.txt, i, j), args |-> <<>>]))

parseBodyClose(ps) ==
    LET i == SkipWs(ps.txt, 1)
    IN IF At(ps.txt, i) = "}" THEN MatchedTrue(eatChars(ps, SkipWs(ps.txt, i + 1) - 1))
       ELSE NoMatch(ps)

\* while (!parseBodyClose()) { subOp = parseCall() || parseTag() || ... }
\* x.op is the BODY node emitted when the body opened (its line and cPos go
\* into the message), x.body the children pushed so far.
bodyLoop(P(_, _, _, _), ctx, ps, x) ==
    LET subOp == OrElse(P("parseCall", ctx, ps, <<>>),
                 OrElse(P("parseTag", ctx, ps, <<>>),
                 OrElse(P("parseLiteral", ctx, ps, <<>>),
                 OrElse(P("parseReference", ctx, ps, <<>>),
                        P("parseComment", ctx, ps, <<>>)))))
    IN IF parseBodyClose(ps).ok THEN Matched(x.body, parseBodyClose(ps).ps)
       ELSE IF subOp.err # NoErr THEN subOp
       ELSE IF ~subOp.ok
            THEN Thrown(SyntaxError(ctx, ps,
                        <<"Syntax error in body(line:">> \o NumToString(x.op.line)
                        \o <<",cPos:">> \o NumToString(x.op.cPos) \o <<")">>), ps)
       ELSE P("bodyLoop", ctx, subOp.ps,
              [x EXCEPT !.body = IF subOp.isOp THEN Append(@, subOp.op) ELSE @])

parseBody(P(_, _, _, _), ctx, ps) ==
    LET i == SkipWs(ps.txt, 1)
        op == emit(ctx, ps, [opcode |-> BODY, body |-> <<>>])
        r == P("bodyLoop", ctx, eatChars(ps, SkipWs(ps.txt, i + 1) - 1),
               [op |-> op, body |-> <<>>])
    IN IF At(ps.txt, i) # "{" THEN NoMatch(ps)
       ELSE IF r.err # NoErr THEN r
       ELSE Matched([op EXCEPT !.body = r.op], r.ps)

\* The call of parser function f.
RECURSIVE parse(_, _, _, _)
parse(f, ctx, ps, x) ==
    CASE f = "parseBody" -> parseBody(parse, ctx, ps)
      [] f = "bodyLoop" -> bodyLoop(parse, ctx, ps, x)
      [] f = "parseCall" -> parseCall(parse, ctx, ps)
      [] f = "parseCallRest" -> parseCallRest(parse, ctx, ps, x)
      [] f = "argLoop" -> argLoop(parse, ctx, ps, x)
      [] f = "argLoopRest" -> argLoopRest(parse, ctx, ps, x)
      [] f = "parseCallArgValue" -> parseCallArgValue(parse, ctx, ps)
      [] f = "parseTag" -> parseTag(parse, ctx, ps)
      [] f = "parseTagRest" -> parseTagRest(parse, ctx, ps, x)
      [] f = "tagModifiers" -> tagModifiers(parse, ctx, ps, x)
      [] f = "parseTagId" -> parseTagId(parse, ctx, ps, x)
      [] f = "parseTagClass" -> parseTagClass(parse, ctx, ps, x)
      [] f = "parseTagAttr" -> parseTagAttr(parse, ctx, ps, x)
      [] f = "parseLiteral" -> parseLiteral(parse, ctx, ps)
      [] f = "literalLoop" -> literalLoop(parse, ctx, ps, x)
      [] f = "parseLiteralRun" -> parseLiteralRun(ctx, ps)
      [] f = "parseLiteralEscape" -> parseLiteralEscape(ctx, ps)
      [] f = "parseReference" -> parseReference(ctx, ps)
      [] f = "parseQuote" -> parseQuote(ctx, ps)
      [] f = "parseIdentifier" -> parseIdentifier(ctx, ps)
      [] f = "parseComment" -> parseComment(parse, ctx, ps)
      [] f = "commentLoop" -> commentLoop(parse, ctx, ps)
      [] f = "skipComments" -> skipComments(parse, ctx, ps)

(***************************************************************************)
(* The engine: templates and _itos, and the lookup method in force.        *)
(***************************************************************************)
Put(f, name, v) == [n \in DOMAIN f \cup {name} |-> IF n = name THEN v ELSE f[n]]

Closure(obody) == [kind |-> "closure", obody |-> obody]
HostFn(h) == [kind |-> "host", id |-> h]

\* A faulty registration: an existing entry of templates is kept.
addInternalTemplateKeepsExternal(eng, tname, body) ==
    [eng EXCEPT !.itos = Put(@, tname, optimize(body)),
                !.templates = IF tname \in DOMAIN @ THEN @
                              ELSE Put(@, tname, Closure(optimize(body)))]

\* var obody = this._itos[tname] = this.optimize(body);
\* this.templates[tname] = function(args) { return self.execute(obody, args) }
addInternalTemplate(eng, tname, body) ==
    [eng EXCEPT !.itos = Put(@, tname, optimize(body)),
                !.templates = Put(@, tname, Closure(optimize(body)))]

\* The state of one compile call: the engine, the parser's position, the
\* exception thrown, and (history) the defs completed so far, each with the
\* body as parsed.

\* A faulty parseDef: the template is registered before the body's outcome
\* is looked at.
parseDefEndRegistersOnError(c, tName, body) ==
    [c EXCEPT !.ok = body.err = NoErr, !.err = body.err, !.ps = body.ps,
              !.eng = addInternalTemplate(c.eng, tName, body.op),
              !.defs = IF body.err = NoErr
                       THEN Append(@, [name |-> tName, body |-> body.op])
                       ELSE @]

\* parseDef once the def's name is matched and its body (the outcome of
\* parseBody) is read: self._addInternalTemplate(tName, body); return true
parseDefEnd(c, tName, body) ==
    IF body.err # NoErr THEN [c EXCEPT !.ok = FALSE, !.err = body.err]
    ELSE [c EXCEPT !.ok = TRUE, !.ps = body.ps,
                   !.eng = addInternalTemplate(c.eng, tName, body.op),
                   !.defs = Append(@, [name |-> tName, body |-> body.op])]

\* /^\s*def\s+(\w+)\s*\{/ from the name on: the name at j .. k-1, the brace
\* expected at m; eatChars(m[0].length - 1) leaves the brace to parseBody
parseDefAt(c, ctx, j, k, m) ==
    IF k = j \/ At(c.ps.txt, m) # "{"
    THEN [c EXCEPT !.ok = FALSE]
    ELSE parseDefEnd(c, WordAt(c.ps.txt, j, k),
                     parse("parseBody", ctx, eatChars(c.ps, m - 1), <<>>))

parseDef(c, filename, len) ==
    LET i == SkipWs(c.ps.txt, 1)
        j == SkipWs(c.ps.txt, i + 1)
        k == WordEnd(c.ps.txt, j)
    IN IF At(c.ps.txt, i) # "def" \/ j = i + 1 THEN [c EXCEPT !.ok = FALSE]
       ELSE parseDefAt(c, [len |-> len, filename |-> filename, itos |-> c.eng.itos],
                       j, k, SkipWs(c.ps.txt, k))

RECURSIVE compileLoop(_, _, _)

\* while (parseDef() || parseComment()) eatWhitespace();
\* d is the outcome of parseDef, cm that of parseComment.
compileStep(c, d, cm, filename, len) ==
    IF d.err # NoErr THEN d
    ELSE IF d.ok THEN compileLoop([d EXCEPT !.ps = eatWhitespace(d.ps)], filename, len)
    ELSE IF cm.err # NoErr THEN [c EXCEPT !.err = cm.err]
    ELSE IF cm.ok THEN compileLoop([c EXCEPT !.ps = eatWhitespace(cm.ps)], filename, len)
    ELSE c

compileLoop(c, filename, len) ==
    compileStep(c, parseDef(c, filename, len),
                parse("parseComment",
                      [len |-> len, filename |-> filename, itos |-> c.eng.itos],
                      c.ps, <<>>),
                filename, len)

\* eatWhitespace(); if (txt1.length) error('Syntax error, Expected DEF')
compileEnd(c1, ps1, filename, len) ==
    IF c1.err # NoErr THEN c1
    ELSE IF ps1.txt # <<>>
         THEN [c1 EXCEPT !.err =
                 SyntaxError([len |-> len, filename |-> filename], ps1,
                             <<"Syntax error, Expected DEF">>)]
    ELSE c1

compileFrom(c1, filename, len) == compileEnd(c1, eatWhitespace(c1.ps), filename, len)

compile(eng, txt0, filename) ==
    compileFrom(compileLoop([eng |-> eng, ps |-> eatWhitespace([txt |-> txt0, line |-> 1]),
                             ok |-> TRUE, err |-> NoErr, defs |-> <<>>],
                            filename, Len(txt0)),
                filename, Len(txt0))

(***************************************************************************)
(* The inputs of the engine's operations.                                  *)
(***************************************************************************)
DefOf(name, body) == <<"def", " ", name, "{">> \o body \o <<"}">>

\* Source texts after the README's examples (a callee c, a caller k), and
\* malformed ones.
Sources ==
    { DefOf("c", <<"@", "v">>),
      DefOf("c", <<"@", "~", "v">>),
      DefOf("c", <<"~", "x", "~">>) \o <<"\n">> \o DefOf("d", <<"@", "v", ".", "x">>),
      DefOf("k", <<"c", "(", ")">>),
      DefOf("k", <<"c", "(", "v", ":", "\"", "x", "\"", ")">>),
      DefOf("k", <<"c", "(", "v", ":", "@", "w", ")">>),
      DefOf("k", <<"~", "a", "~", "\n", "n", "(", ")">>),
      DefOf("k", <<"c", "(", ")">>) \o <<"\n">> \o DefOf("c", <<"~", "x", "~">>),
      DefOf("c", <<"@", "v">>) \o <<"\n">>
          \o DefOf("k", <<"p", "{", "c", "(", "v", ":", "~", "x", "@", "w", "~", ")", "}">>)
          \o <<"\n">> \o DefOf("d", <<"k", "(", "w", ":", "\"", "z", "\"", ")">>),
      DefOf("c", <<"p", "{", "~", "a", "~", "}">>) \o <<"\n">>
          \o <<"def", " ", "k", "{", "~", "a">>,
      <<"/*", "/*", "a", "*/", "*/", "}">> }

FileNames == {"t.jhaml"}

\* The default parameters a host sets.
DefaultNames == {"v"}
DefaultValues == {StrVal(<<"q">>)}

HostNames == {"c", "n"}
HostFns == {"H"}

\* The parameter objects a host passes: object 1 is the argument of the
\* call, object 2 a nested mapping it may refer to.
NestedObject == [own |-> [x \in {"x"} |-> StrVal(<<"z">>)], attrs |-> <<>>]
ValuesOfW == {StrVal(<<"<", "&">>), NumVal(12), BoolVal(TRUE), RefVal(2)}
OwnProps ==
    {<<>>, [n \in {"v"} |-> StrVal(<<"y">>)], [n \in {"v"} |-> RefVal(2)]}
    \cup {[n \in {"w"} |-> b] : b \in ValuesOfW}
    \cup {[n \in {"v", "w"} |-> IF n = "v" THEN StrVal(<<"y">>) ELSE b] :
             b \in {StrVal(<<"<", "&">>), RefVal(2)}}
ModelObjects ==
    {[own |-> o, attrs |-> [n \in {"v"} |-> StrVal(<<"m">>)]] :
        o \in {<<>>, [n \in {"v"} |-> StrVal(<<"y">>)]}}
ParamHeaps ==
    {<<[own |-> o, attrs |-> <<>>], NestedObject>> : o \in OwnProps}
    \cup {<<m, NestedObject>> : m \in ModelObjects}

\* Every text made of up to n pieces of the set A.
RECURSIVE TextsUpTo(_, _)
TextsUpTo(A, n) ==
    IF n = 0 THEN {<<>>}
    ELSE LET S == TextsUpTo(A, n - 1)
         IN S \cup {a \o t : a \in A, t \in S}

\* The bodies of the optimizer's specification: up to MaxBodyToks pieces,
\* each a literal's delimiter, a name, a brace or a reference.
BodyPieces == {<<"~">>, <<"p">>, <<"{">>, <<"}">>, <<"@", "v">>}
GenSources == {DefOf("d", b) : b \in TextsUpTo(BodyPieces, MaxBodyToks)}
GenHeaps ==
    {<<[own |-> o, attrs |-> <<>>], NestedObject>> :
        o \in {<<>>} \cup {[n \in {"v"} |-> b] :
                             b \in {StrVal(<<"y">>), NumVal(12), RefVal(2)}}}

\* The strings of the escaping specification.
EscChars == {"<", ">", "&", "\"", "a"}
EscHeaps ==
    {<<[own |-> [n \in {"v"} |-> StrVal(t)], attrs |-> <<>>]>> :
        t \in TextsUpTo({<<c>> : c \in EscChars}, MaxStrLen)}
EscSource == DefOf("t", <<"@", "~", "v">>) \o <<"\n">> \o DefOf("h", <<"@", "v">>)

(***************************************************************************)
(* The state machine of one engine instance.  last records the operation   *)
(* just performed, with what it was given and what it produced.            *)
(***************************************************************************)
Engine ==
    [defaultParams |-> defaultParams, templates |-> templates, itos |-> itos,
     lookupMode |-> lookupMode]

NoLast ==
    [op |-> "new", name |-> "", src |-> <<>>, filename |-> "", err |-> NoErr,
     defs |-> <<>>, before |-> [templates |-> <<>>, itos |-> <<>>],
     heap0 |-> <<>>, res |-> NewExecState(<<>>)]

\* new Jhaml(): defaultParams, templates and _itos are empty objects.
Init ==
    /\ defaultParams = <<>>
    /\ templates = <<>>
    /\ itos = <<>>
    /\ lookupMode = "default"
    /\ last = NoLast
    /\ registered = <<>>
    /\ nops = 0

\* The engine after a compile call that ended in state c.
Compiled(c, src, filename) ==
    /\ templates' = c.eng.templates
    /\ itos' = c.eng.itos
    /\ last' = [NoLast EXCEPT !.op = "compile", !.src = src,
                              !.filename = filename, !.err = c.err,
                              !.defs = c.defs,
                              !.before = [templates |-> templates, itos |-> itos]]
    /\ registered' =
          [n \in DOMAIN registered |->
              [registered[n] EXCEPT !.redefined =
                  @ \/ \E i \in DOMAIN c.defs : c.defs[i].name = n]]

\* jhaml.compile(src, filename)
Compile(src, filename) ==
    /\ nops < MaxOps
    /\ Compiled(compile(Engine, src, filename), src, filename)
    /\ nops' = nops + 1
    /\ UNCHANGED <<defaultParams, lookupMode>>

\* The host installs a callable of its own: jhaml.templates[name] = f
Register(name, h) ==
    /\ nops < MaxOps
    /\ templates' = Put(templates, name, HostFn(h))
    /\ last' = [NoLast EXCEPT !.op = "register", !.name = name]
    /\ registered' = Put(registered, name, [id |-> h, redefined |-> FALSE])
    /\ nops' = nops + 1
    /\ UNCHANGED <<defaultParams, itos, lookupMode>>

\* The host overrides the lookup method: jhaml.lookup = function(params, name) ...
OverrideLookup ==
    /\ nops < MaxOps
    /\ lookupMode = "default"
    /\ lookupMode' = "override"
    /\ last' = [NoLast EXCEPT !.op = "override"]
    /\ nops' = nops + 1
    /\ UNCHANGED <<defaultParams, templates, itos, registered>>

\* The host renders a compiled template: jhaml.templates[name](args)
Invoke(name, heap) ==
    /\ name \in DOMAIN templates
    /\ templates[name].kind = "closure"
    /\ last' = [NoLast EXCEPT !.op = "invoke", !.name = name, !.heap0 = heap,
                              !.res = invoke(Engine, templates[name], RefVal(1),
                                             NewExecState(heap), MaxDepth)]
    /\ UNCHANGED <<defaultParams, templates, itos, lookupMode, registered, nops>>

\* The host gives every template a parameter: jhaml.defaultParams[name] = v
\* (or new Jhaml({defaultParams: {name: v}})).
SetDefaultParam(name, v) ==
    /\ nops < MaxOps
    /\ name \notin DOMAIN defaultParams
    /\ defaultParams' = Put(defaultParams, name, v)
    /\ last' = [NoLast EXCEPT !.op = "default", !.name = name]
    /\ nops' = nops + 1
    /\ UNCHANGED <<templates, itos, lookupMode, registered>>

Next ==
    \/ \E src \in Sources, fn \in FileNames : Compile(src, fn)
    \/ \E name \in HostNames, h \in HostFns : Register(name, h)
    \/ OverrideLookup
    \/ \E name \in DefaultNames, v \in DefaultValues : SetDefaultParam(name, v)
    \/ \E name \in DOMAIN templates, heap \in ParamHeaps : Invoke(name, heap)

Spec == Init /\ [][Next]_vars

\* The optimizer and the executor on every def body of up to MaxBodyToks
\* lexemes: one compile of a generated text, then renderings of its def.
NextOpt ==
    \/ \E src \in GenSources, fn \in FileNames : nops = 0 /\ Compile(src, fn)
    \/ \E name \in DOMAIN templates, heap \in GenHeaps : Invoke(name, heap)

SpecOpt == Init /\ [][NextOpt]_vars

\* Escaping: the defs t { @~v } and h { @v } rendered on every string of up
\* to MaxStrLen characters.
NextEsc ==
    \/ \E fn \in FileNames : nops = 0 /\ Compile(EscSource, fn)
    \/ \E name \in DOMAIN templates, heap \in EscHeaps : Invoke(name, heap)

SpecEsc == Init /\ [][NextEsc]_vars

(***************************************************************************)
(* Properties.                                                             *)
(***************************************************************************)
\* execute(T, P) from outside: no sink, the whole call depth available.
Run(T, heap) == execute(Engine, T, RefVal(1), NewExecState(heap), FALSE, MaxDepth)

\* The defs the last compile call completed.
LastDefs == {last.defs[i] : i \in DOMAIN last.defs}

\* C1: for every tree T the parser produced and every parameter object P on
\* which executing T succeeds, executing optimize(T) succeeds too and returns
\* the same output string.
C1_OptimizePreservesOutput ==
    last.op = "compile" =>
        \A d \in LastDefs : \A h \in GenHeaps :
            Run(d.body, h).err = NoErr =>
                /\ Run(optimize(d.body), h).err = NoErr
                /\ Run(optimize(d.body), h).ret = Run(d.body, h).ret

\* C1, reached: a compiled def whose tree holds a nested Body, which optimize rewrites,
\* and which renders a reference's value between literal texts.
C1_Witness ==
    /\ last.op = "compile"
    /\ \E d \in LastDefs : \E h \in GenHeaps :
          /\ \E i \in DOMAIN d.body.body : d.body.body[i].opcode = BODY
          /\ optimize(d.body) # d.body
          /\ Run(d.body, h).err = NoErr
          /\ Run(d.body, h).ret = StrVal(<<"<", "p", ">", "y", "<", "/", "p", ">">>)

\* The calls the last rendering entered.
Calls == {last.res.log[i] : i \in DOMAIN last.res.log}

\* The names a call node declares as arguments.
Declared(op) == {op.args[i].name : i \in DOMAIN op.args}

\* The value of a declared argument evaluated against the caller's params.
ArgValue(e, val) ==
    execute(Engine, val, RefVal(e.paramsId), NewExecState(e.heap), FALSE, MaxDepth).ret

\* C2: the callee of a call site executed with caller parameters P receives
\* an argument object in which every declared argument maps to its value
\* evaluated against P, and every name of P that is not declared maps to the
\* same value as in P.
C2_DynamicScope ==
    last.op = "invoke" =>
        \A e \in Calls :
            /\ \A i \in DOMAIN e.op.args :
                  /\ e.op.args[i].name \in DOMAIN e.args
                  /\ e.args[e.op.args[i].name] = ArgValue(e, e.op.args[i].val)
            /\ \A n \in DOMAIN e.params \ Declared(e.op) :
                  /\ n \in DOMAIN e.args
                  /\ e.args[n] = e.params[n]

\* C2, reached: a call whose declared argument v shadows the caller's different v while
\* the caller's w falls through, and a call that declares nothing and passes
\* the caller's v on.
C2_Witness ==
    /\ last.op = "invoke"
    /\ last.res.err = NoErr
    /\ \E e \in Calls :
          /\ "v" \in Declared(e.op) /\ "v" \in DOMAIN e.params
          /\ e.args["v"] # e.params["v"]
          /\ "w" \in DOMAIN e.params /\ e.args["w"] = e.params["w"]

\* C3: when a call argument is written as a bare raw reference (name: @path)
\* the compiled argument node is a ParamRef, and the callee's argument object
\* holds under that name the resolved value itself, not converted to text.
C3_BareReferenceArgIsRawValue ==
    last.op = "invoke" =>
        \A e \in Calls : \A i \in DOMAIN e.op.args :
            e.op.args[i].val.opcode \in {HTMLREF, PARAMREF} =>
                /\ e.op.args[i].val.opcode = PARAMREF
                /\ e.args[e.op.args[i].name] =
                       resolveLookUp(Engine, e.heap, RefVal(e.paramsId),
                                     e.op.args[i].val.path, e.op.args[i].val).val

\* The call nodes of a tree, those inside bodies and arguments included.
RECURSIVE CallSites(_)
CallSites(op) ==
    CASE op.opcode = BODY ->
           UNION {CallSites(op.body[i]) : i \in DOMAIN op.body}
      [] op.opcode = PARAMBODY -> CallSites(op.body)
      [] op.opcode \in {EXTCALL, INTCALL} ->
           {op} \cup UNION {CallSites(op.args[i].val) : i \in DOMAIN op.args}
      [] OTHER -> {}

\* The names with an internal definition when def number i of the last
\* compile call was parsed.
InternalAt(i) ==
    DOMAIN last.before.itos \cup {last.defs[j].name : j \in 1..(i - 1)}

\* A call site parsed while its name has no internal definition is an
\* external call.
ForwardSitesAreExternal ==
    last.op = "compile" =>
        \A i \in DOMAIN last.defs : \A site \in CallSites(last.defs[i].body) :
            site.tname \notin InternalAt(i) => site.opcode = EXTCALL

\* The external calls to a name under which the host installed a callable.
RegisteredCalls ==
    {e \in Calls : e.op.opcode = EXTCALL /\ e.op.tname \in DOMAIN registered}

\* C4 as stated: a call site to N parsed while N has no internal definition
\* is an external call, and once a callable is registered under N executing
\* the site invokes that callable, also when an internal template N is
\* defined after the registration.
C4_RegisteredCallableAlwaysInvoked ==
    /\ ForwardSitesAreExternal
    /\ last.op = "invoke" =>
          \A e \in RegisteredCalls :
              e.callee = HostFn(registered[e.op.tname].id)

\* C4 amended: a call site to N parsed while N has no internal definition is
\* an external call; executing it invokes the current entry of the external
\* table under N, which is the registered callable as long as no def N was
\* compiled after the registration, and the closure of the latest def N
\* otherwise.
C4_ExternalCallInvokesCurrentEntry ==
    /\ ForwardSitesAreExternal
    /\ last.op = "invoke" =>
          /\ \A e \in Calls :
                e.op.opcode = EXTCALL => e.callee = templates[e.op.tname]
          /\ \A e \in RegisteredCalls :
                e.callee = IF registered[e.op.tname].redefined
                           THEN Closure(itos[e.op.tname])
                           ELSE HostFn(registered[e.op.tname].id)

\* C4, reached: a forward reference to c, compiled as an external call while the host's
\* callable is registered under c, rendered with the callable's result.
C4_Witness ==
    /\ last.op = "invoke"
    /\ last.res.ret = StrVal(HostCall("H", last.res.heap, 1))
    /\ \E e \in RegisteredCalls :
          /\ ~registered[e.op.tname].redefined
          /\ e.op.tname \notin DOMAIN itos

\* The text a string is to be emitted as by a TextRef: the four characters
\* replaced by their entities, every other character kept, in order.
RECURSIVE EntityText(_)
EntityText(t) ==
    IF t = <<>> THEN <<>>
    ELSE (CASE Head(t) = "<" -> <<"&", "l", "t", ";">>
            [] Head(t) = ">" -> <<"&", "g", "t", ";">>
            [] Head(t) = "&" -> <<"&", "a", "m", "p", ";">>
            [] Head(t) = "\"" -> <<"&", "q", "u", "o", "t", ";">>
            [] OTHER -> <<Head(t)>>) \o EntityText(Tail(t))

\* The string the last rendering was given as v.
GivenString == last.heap0[1].own["v"].s

\* C5: a TextRef whose path resolves to a string s emits s with every <, >,
\* & and " replaced by its entity and every other character unchanged and in
\* order, so that the emitted text holds no <, > or "; an HtmlRef on the same
\* path emits s unchanged.
C5_Escaping ==
    last.op = "invoke" =>
        /\ last.res.err = NoErr
        /\ last.name = "t" =>
              /\ itos["t"].body[1].opcode = TEXTREF
              /\ last.res.ret = StrVal(EntityText(GivenString))
              /\ \A i \in DOMAIN last.res.ret.s :
                    last.res.ret.s[i] \notin {"<", ">", "\""}
        /\ last.name = "h" =>
              /\ itos["h"].body[1].opcode = HTMLREF
              /\ last.res.ret = StrVal(GivenString)

\* C5, reached: the TextRef rendered on a string that holds an ampersand between two of
\* the other escaped characters.
C5_Witness ==
    /\ last.op = "invoke"
    /\ last.name = "t"
    /\ GivenString = <<"<", "&", "\"">>
    /\ last.res.ret = StrVal(<<"&", "l", "t", ";", "&", "a", "m", "p", ";",
                               "&", "q", "u", "o", "t", ";">>)

\* C6: the executor never mutates a caller-supplied parameter object: after
\* a rendering, successful or failed, every object the host passed has the
\* keys and values it had before; every call entered received an object of
\* its own, built by that call, and nothing was written into that object
\* after the call's arguments were placed in it.
C6_ParamsNotMutated ==
    last.op = "invoke" =>
        /\ \A id \in DOMAIN last.heap0 : last.res.heap[id] = last.heap0[id]
        /\ \A e \in Calls :
              /\ e.argsId \notin DOMAIN last.heap0
              /\ e.argsId # e.paramsId
              /\ last.res.heap[e.argsId].own = e.args
        /\ \A i, j \in DOMAIN last.res.log :
              i # j => last.res.log[i].argsId # last.res.log[j].argsId

\* C6, reached: a rendering two internal calls deep in which each call declares an
\* argument: w is written for the outer callee over the host's own w, and v
\* for the inner callee over the host's own v.
C6_Witness ==
    /\ last.op = "invoke"
    /\ last.res.err = NoErr
    /\ {"v", "w"} \subseteq DOMAIN last.heap0[1].own
    /\ \E i, j \in DOMAIN last.res.log :
          /\ i < j
          /\ last.res.log[i].op.opcode = INTCALL
          /\ last.res.log[j].op.opcode = INTCALL
          /\ last.res.log[j].paramsId = last.res.log[i].argsId
          /\ last.res.log[i].args["w"] # last.heap0[1].own["w"]
          /\ last.res.log[j].args["v"] # last.heap0[1].own["v"]

\* The names of the defs the last compile call completed, and the body of
\* the last completed def of a name.
DefNames == {d.name : d \in LastDefs}
LatestBody(n) ==
    LET i == CHOOSE i \in DOMAIN last.defs :
                 /\ last.defs[i].name = n
                 /\ \A j \in DOMAIN last.defs : last.defs[j].name = n => j <= i
    IN last.defs[i].body

\* C7: when compile fails with a syntax error, every def completely parsed
\* before the error position is registered in both tables, no def at or
\* after the error position is registered, and the entries registered before
\* the call under other names are unchanged.
C7_FailedCompileKeepsCompletedDefs ==
    (last.op = "compile" /\ last.err # NoErr) =>
        /\ last.err.k = "SyntaxError"
        /\ \A d \in LastDefs : d.body.cPos < last.err.cPos
        /\ \A n \in DefNames :
              /\ n \in DOMAIN itos /\ itos[n] = optimize(LatestBody(n))
              /\ n \in DOMAIN templates
              /\ templates[n] = Closure(optimize(LatestBody(n)))
        /\ DOMAIN itos = DOMAIN last.before.itos \cup DefNames
        /\ DOMAIN templates = DOMAIN last.before.templates \cup DefNames
        /\ \A n \in DOMAIN last.before.itos \ DefNames :
              itos[n] = last.before.itos[n]
        /\ \A n \in DOMAIN last.before.templates \ DefNames :
              templates[n] = last.before.templates[n]

\* C7, reached: a compile call that completed def c and then failed inside def k, on an
\* engine that held a template k from an earlier call.
C7_Witness ==
    /\ last.op = "compile"
    /\ last.err # NoErr
    /\ DefNames = {"c"}
    /\ \E i \in DOMAIN last.src :
          /\ i > LatestBody("c").cPos /\ i + 2 <= last.err.cPos
          /\ last.src[i] = "def" /\ last.src[i + 2] = "k"
    /\ "k" \in DOMAIN last.before.itos
    /\ "c" \notin DOMAIN last.before.itos
    /\ itos["k"] = last.before.itos["k"]

\* A call site whose name has no entry in the table its kind looks in.
Unresolved(site) ==
    \/ site.opcode = EXTCALL /\ site.tname \notin DOMAIN templates
    \/ site.opcode = INTCALL /\ site.tname \notin DOMAIN itos

\* The call sites of every compiled template.
AllCallSites == UNION {CallSites(itos[n]) : n \in DOMAIN itos}

\* The strings concatenated into a message.
Parts(msg) == {msg[i] : i \in DOMAIN msg}

\* C8: executing a call site whose template name N has no registry entry
\* raises an error that carries the call node's file, line and column and
\* identifies N: a rendering that succeeds met no such site, and an error
\* that is not about a parameter comes from such a site, has its location
\* and names its template.
C8_ResolutionErrorNamesTemplate ==
    last.op = "invoke" =>
        /\ last.res.err = NoErr =>
              \A site \in CallSites(templates[last.name].obody) : ~Unresolved(site)
        /\ (last.res.err.k = "Error" /\ last.res.err.msg[1] # "parameter ") =>
              \E site \in AllCallSites :
                  /\ Unresolved(site)
                  /\ last.res.err.filename = site.filename
                  /\ last.res.err.line = site.line
                  /\ last.res.err.cPos = site.cPos
                  /\ site.tname \in Parts(last.res.err.msg)

\* The value of a dotted path when every segment is obtained through the
\* host's lookup strategy; Undefined when a segment is missing.
RECURSIVE ResolveByOverride(_, _, _, _)
ResolveByOverride(heap, val, path, i) ==
    IF i > Len(path) \/ val = Undefined THEN val
    ELSE ResolveByOverride(heap, lookupOverride(heap, val, path[i]), path, i + 1)

\* The text a reference node emits for a resolved value.
RefText(op, v) == IF op.opcode = TEXTREF THEN escape(v.s) ELSE JsString(v)

\* C9: once the host has overridden the lookup strategy, a reference's path
\* is resolved segment by segment through that strategy, so a template that
\* consists of one reference renders the value the override returns.
C9_LookupOverrideUsed ==
    (/\ last.op = "invoke"
     /\ lookupMode = "override"
     /\ Len(templates[last.name].obody.body) = 1
     /\ templates[last.name].obody.body[1].opcode \in {HTMLREF, TEXTREF}) =>
        LET ref == templates[last.name].obody.body[1]
            v == ResolveByOverride(last.heap0, RefVal(1), ref.path, 1)
        IN IF v = Undefined THEN last.res.err # NoErr
           ELSE IF ref.opcode = TEXTREF /\ v.k # "str" THEN last.res.err # NoErr
           ELSE /\ last.res.err = NoErr
                /\ last.res.ret = StrVal(RefText(ref, v))

\* The optimizer's normal form on a child sequence.
NoBodyChild(body) == \A i \in DOMAIN body : body[i].opcode # BODY
NoAdjacentLiterals(body) ==
    \A i \in DOMAIN body :
        i > 1 => ~(body[i - 1].opcode = LITERAL /\ body[i].opcode = LITERAL)

\* C10: after a single optimize(T) the child sequence of T holds no Body node
\* and no two adjacent children that are both Literal.
C10_OptimizerNormalForm ==
    last.op = "compile" =>
        \A d \in LastDefs :
            /\ NoBodyChild(optimize(d.body).body)
            /\ NoAdjacentLiterals(optimize(d.body).body)

\* C11: optimize is idempotent: applying optimize to the tree optimize
\* returned leaves it unchanged, with the same children and the same
\* Literal texts.
C11_OptimizeIdempotent ==
    last.op = "compile" =>
        \A d \in LastDefs : optimize(optimize(d.body)) = optimize(d.body)

\* C12: the properties of defaultParams are parameters available to every
\* template: a template that consists of one reference to a name k of
\* defaultParams, rendered on an argument object without k, renders
\* defaultParams[k]; and no rendering, in the template or in a template it
\* calls, fails because a name of defaultParams is undefined.
C12_DefaultParamsAvailable ==
    last.op = "invoke" =>
        /\ (/\ Len(templates[last.name].obody.body) = 1
            /\ templates[last.name].obody.body[1].opcode \in {HTMLREF, TEXTREF}
            /\ Len(templates[last.name].obody.body[1].path) = 1
            /\ templates[last.name].obody.body[1].path[1] \in DOMAIN defaultParams
            /\ templates[last.name].obody.body[1].path[1]
                  \notin DOMAIN last.heap0[1].own) =>
              /\ last.res.err = NoErr
              /\ last.res.ret =
                    StrVal(RefText(templates[last.name].obody.body[1],
                                   defaultParams[templates[last.name].obody.body[1].path[1]]))
        /\ ~(/\ last.res.err.k = "Error"
             /\ last.res.err.msg[1] = "parameter "
             /\ last.res.err.msg[2] = last.res.err.msg[4]
             /\ last.res.err.msg[2] \in DOMAIN defaultParams)

====
